---- MODULE Spec2Model ----
(***************************************************************************)
(* The Render Engine: a model of R.Engine (the lifecycle state machine,    *)
(* the frame scheduler, the timer pool and the identity registry).         *)
(*                                                                         *)
(* JavaScript is single threaded, so a handler runs to completion unless   *)
(* it hands control to code of the game: the root traversal                *)
(* (getDefaultContext().update), a shutdown callback, or the destruction   *)
(* of the root context.  Those three places are modelled as frames on      *)
(* `stack`: while a frame is open the game code may call back into the     *)
(* engine, and the Return action runs the rest of the interrupted handler. *)
(* Every operation of the engine is an operator from a state record to a   *)
(* state record, so that handlers can call one another as the code does.   *)
(*                                                                         *)
(* Not modelled: downTime, the metrics display and the debug flags.        *)
(* setFPS is issued between handlers only, startup also while the root    *)
(* context is destroyed (SpecDown).  Timeouts carry no due time: a         *)
(* pending timeout may fire at any clock value.                            *)
(***************************************************************************)
EXTENDS Integers, Sequences, FiniteSets

VARIABLES
    started, running, shuttingDown,   \* lifecycle flags
    stepOne, pauseTime,               \* R.Engine._stepOne, R.Engine._pauseTime: no field
                                      \* declares them; _stepOne is 0 until run() or step()
                                      \* assigns it (engineTimer is not reached before)
    fpsClock, skipFrames, nativeAnimationFrame,
    upTime, worldTime, lastTime, liveTime, frameTime,
    totalFrames, droppedFrames,
    idRef, livingObjects,
    timerPool,                        \* timer name -> state of the handle registered under it
    shutdownCallbacks,                \* queue of registered callbacks
    defaultContext,                   \* TRUE when R.Engine.defaultContext is not null
    now,                              \* the clock read by R.now()
    globalPending,                    \* the timeout R.Engine.globalTimer designates is pending
    orphanTicks,                      \* pending tick requests globalTimer does not designate
    reissue,                          \* position of the deferred shutdown: none, pending, done
    nextFrame,                        \* delay computed by the last completed tick
    stack,                            \* open frames of game code, innermost last
    cbLog,                            \* callbacks invoked so far, in order of invocation
    nextCb,                           \* next callback identity
    cancelled,                        \* timer names cancel() was invoked on by the last shutdown
                                      \* since the last startup
    objState,                         \* object -> new, live, dead
    paused,                           \* running was last cleared by pause()
    FPS,                              \* R.Engine.FPS, the cache of getFPS; 0 when it is
                                      \* undefined (getFPS reads it through ! only)
    loadedScripts,                    \* TRUE when the built-in scripts have been requested
    issued,                           \* the id strings returned by create so far
    options,                          \* R.Engine.options: option key -> value
    mode, hostRect, billboard,        \* fields of a Billboard2D component
    gameObject,                       \* the game object the component is attached to, or null
    renders,                          \* calls of R.util.RenderUtil.renderComponentToImage
    markDirtyCalls,                   \* calls of markDirty() on the game object
    snapshot,                         \* the image the billboard holds: the number of the
                                      \* render that made it, 0 for none
    transform,                        \* origin transforms in force on the render context
    blit,                             \* how the last drawImage of the billboard ended
    element, events,                  \* fields of a BaseObject
    destroyed,                        \* the BaseObject has been destroyed and not constructed again
    bound,                            \* the handlers attached to the element and to the document
    contents                          \* container -> the objects it holds, in the order of its iterator

vars == <<started, running, shuttingDown, stepOne, pauseTime, fpsClock, skipFrames,
          nativeAnimationFrame, upTime, worldTime, lastTime, liveTime, frameTime,
          totalFrames, droppedFrames, idRef, livingObjects, timerPool,
          shutdownCallbacks, defaultContext, now, globalPending, orphanTicks, reissue,
          nextFrame, stack, cbLog, nextCb, cancelled, objState, paused,
          FPS, loadedScripts, issued, options,
          mode, hostRect, billboard, gameObject, renders, markDirtyCalls,
          snapshot, transform, blit,
          element, events, destroyed, bound, contents>>

----------------------------------------------------------------------------
\* Bounds of the model

MaxDepth == 2
MaxFrames == 2
MaxTime == 56
MaxCallbacks == 2
MaxId == 2
MaxDebt == 2
MaxOrphans == 1
MaxDropped == 3
MaxIssued == 11
MaxFps == 100
MaxVersions == 2
MaxRenders == 3
MaxMarks == 3

\* Program constants

DefaultFpsClock == 16

TimerNames == {"t1", "t2"}
Objects == {"o1", "o2"}
NULL == "null"
UNDEFINED == "undefined"
ASSERTION == "assertion failed"
ABSENT == "absent"
REDRAW == "REDRAW"
NORMAL == "NORMAL"
DecimalDigits == <<"0", "1", "2", "3", "4", "5", "6", "7", "8", "9">>
\* obj.getName() of the objects
GetName(obj) == IF obj = "o1" THEN <<"P", "1">> ELSE <<"P">>
OptionKeys == {"nativeAnimationFrame", "useDirtyRectangles"}
OptionValues == {"true", "false"}
\* R.engine.Support.sysInfo(): the platform and the version the process runs on
SysInfo == [OS |-> "os1", version |-> 2]
OSNames == {"os1", "os2"}
VersionKeys == {1, 2, 3}
Costs == {0, 8, 24, 40}
Waits == {16}
FpsValues == {0, 30, 60}

\* the highest rate whose frame time is a whole millisecond, and the next one
FastFps == {1000, 1001}
\* the default context, the containers and the game objects of a scene
RootContext == "ctx"
Containers == {"c1", "c2"}
SceneObjects == Containers \cup {"g1", "g2"}

----------------------------------------------------------------------------
\* The state as one record, and its commitment to the variables

Cur ==
    [started |-> started, running |-> running, shuttingDown |-> shuttingDown,
     stepOne |-> stepOne, pauseTime |-> pauseTime, fpsClock |-> fpsClock,
     skipFrames |-> skipFrames, nativeAnimationFrame |-> nativeAnimationFrame,
     upTime |-> upTime, worldTime |-> worldTime, lastTime |-> lastTime,
     liveTime |-> liveTime, frameTime |-> frameTime, totalFrames |-> totalFrames,
     droppedFrames |-> droppedFrames, idRef |-> idRef, livingObjects |-> livingObjects,
     timerPool |-> timerPool, shutdownCallbacks |-> shutdownCallbacks,
     defaultContext |-> defaultContext, now |-> now, globalPending |-> globalPending,
     orphanTicks |-> orphanTicks, reissue |-> reissue, nextFrame |-> nextFrame,
     stack |-> stack, cbLog |-> cbLog, nextCb |-> nextCb, cancelled |-> cancelled,
     objState |-> objState, paused |-> paused,
     FPS |-> FPS, loadedScripts |-> loadedScripts, issued |-> issued,
     options |-> options,
     mode |-> mode, hostRect |-> hostRect, billboard |-> billboard,
     gameObject |-> gameObject, renders |-> renders, markDirtyCalls |-> markDirtyCalls,
     snapshot |-> snapshot, transform |-> transform, blit |-> blit,
     element |-> element, events |-> events, destroyed |-> destroyed, bound |-> bound,
     contents |-> contents]

Commit(r) ==
    /\ started' = r.started /\ running' = r.running /\ shuttingDown' = r.shuttingDown
    /\ stepOne' = r.stepOne /\ pauseTime' = r.pauseTime /\ fpsClock' = r.fpsClock
    /\ skipFrames' = r.skipFrames /\ nativeAnimationFrame' = r.nativeAnimationFrame
    /\ upTime' = r.upTime /\ worldTime' = r.worldTime /\ lastTime' = r.lastTime
    /\ liveTime' = r.liveTime /\ frameTime' = r.frameTime /\ totalFrames' = r.totalFrames
    /\ droppedFrames' = r.droppedFrames /\ idRef' = r.idRef
    /\ livingObjects' = r.livingObjects /\ timerPool' = r.timerPool
    /\ shutdownCallbacks' = r.shutdownCallbacks /\ defaultContext' = r.defaultContext
    /\ now' = r.now /\ globalPending' = r.globalPending /\ orphanTicks' = r.orphanTicks
    /\ reissue' = r.reissue /\ nextFrame' = r.nextFrame /\ stack' = r.stack
    /\ cbLog' = r.cbLog /\ nextCb' = r.nextCb /\ cancelled' = r.cancelled
    /\ objState' = r.objState /\ paused' = r.paused
    /\ FPS' = r.FPS /\ loadedScripts' = r.loadedScripts /\ issued' = r.issued
    /\ options' = r.options
    /\ mode' = r.mode /\ hostRect' = r.hostRect /\ billboard' = r.billboard
    /\ gameObject' = r.gameObject /\ renders' = r.renders
    /\ markDirtyCalls' = r.markDirtyCalls
    /\ snapshot' = r.snapshot /\ transform' = r.transform /\ blit' = r.blit
    /\ element' = r.element /\ events' = r.events /\ destroyed' = r.destroyed
    /\ bound' = r.bound
    /\ contents' = r.contents

Frame(k, nf) == [kind |-> k, nextFrame |-> nf]

Push(s, f) == [s EXCEPT !.stack = Append(@, f)]

Pop(s) == [s EXCEPT !.stack = SubSeq(@, 1, Len(@) - 1)]

Top(s) == s.stack[Len(s.stack)]

\* The value of a time that is not a number: _pauseTime before run() or
\* pause() has assigned it (undefined), and what the arithmetic makes of it (NaN)
NaN == -999

\* a - b and a + b of JavaScript numbers
Minus(a, b) == IF a = NaN \/ b = NaN THEN NaN ELSE a - b

Plus(a, b) == IF a = NaN \/ b = NaN THEN NaN ELSE a + b

\* Math.floor in the place of Math.round
MathRound_Floor(num, den) == num \div den

\* Math.round(num / den) for den > 0: the nearest integer, halves rounded up
MathRound(num, den) == (2 * num + den) \div (2 * den)

----------------------------------------------------------------------------
\* The world timer

\* engineTimer without the test of running and of the step flag
EngineTimerOp_NoRunningCheck(s) ==
    IF s.shuttingDown THEN s
    ELSE LET wt == IF s.stepOne = 1 THEN s.pauseTime ELSE s.now
             lt == IF s.stepOne = 1 THEN Minus(wt, s.fpsClock) ELSE s.lastTime
         IN Push([s EXCEPT !.worldTime = wt, !.lastTime = lt, !.defaultContext = TRUE],
                 Frame("update", s.fpsClock))

\* engineTimer, from its entry to the call of the root traversal
EngineTimerOp(s) ==
    IF s.shuttingDown THEN s
    ELSE IF ~s.running /\ s.stepOne = 0 THEN s
    ELSE LET wt == IF s.stepOne = 1 THEN s.pauseTime ELSE s.now
             lt == IF s.stepOne = 1 THEN Minus(wt, s.fpsClock) ELSE s.lastTime
         IN Push([s EXCEPT !.worldTime = wt, !.lastTime = lt, !.defaultContext = TRUE],
                 Frame("update", s.fpsClock))

\* setTimeout / nativeFrame at the end of engineTimer
ScheduleTick(s, delay) ==
    IF s.nativeAnimationFrame
    THEN [s EXCEPT !.orphanTicks = @ + 1]
    ELSE [s EXCEPT !.orphanTicks = @ + (IF s.globalPending THEN 1 ELSE 0),
                   !.globalPending = TRUE]

\* engineTimer's end with the frame counted only when a next tick is scheduled
EngineTimerFinishOp_CountScheduled(s, f, cost) ==
    LET t1 == s.now + cost
        ft == Minus(t1, s.worldTime)
        rem == Minus(f.nextFrame, ft)
        nf == IF s.skipFrames THEN (IF rem # NaN /\ rem > 0 THEN rem ELSE f.nextFrame)
              ELSE s.fpsClock
        s1 == [s EXCEPT !.now = t1,
                        !.lastTime = s.worldTime,
                        !.frameTime = ft,
                        !.pauseTime = IF s.stepOne = 1 THEN Plus(@, ft) ELSE @,
                        !.liveTime = Minus(s.worldTime, s.upTime),
                        !.droppedFrames =
                            @ + (IF rem # NaN /\ rem <= 0 THEN MathRound(-rem, s.fpsClock) ELSE 0),
                        !.nextFrame = nf]
    IN IF s1.stepOne = 1 THEN [s1 EXCEPT !.stepOne = 0]
       ELSE ScheduleTick([s1 EXCEPT !.totalFrames = @ + 1], nf)

\* engineTimer's end with an over-budget frame followed at once by the next
EngineTimerFinishOp_CatchUp(s, f, cost) ==
    LET t1 == s.now + cost
        ft == Minus(t1, s.worldTime)
        rem == Minus(f.nextFrame, ft)
        nf == IF s.skipFrames THEN (IF rem # NaN /\ rem > 0 THEN rem ELSE 0) ELSE s.fpsClock
        s1 == [s EXCEPT !.now = t1,
                        !.lastTime = s.worldTime,
                        !.frameTime = ft,
                        !.pauseTime = IF s.stepOne = 1 THEN Plus(@, ft) ELSE @,
                        !.liveTime = Minus(s.worldTime, s.upTime),
                        !.totalFrames = @ + 1,
                        !.droppedFrames =
                            @ + (IF rem # NaN /\ rem <= 0 THEN MathRound(-rem, s.fpsClock) ELSE 0),
                        !.nextFrame = nf]
    IN IF s1.stepOne = 1 THEN [s1 EXCEPT !.stepOne = 0] ELSE ScheduleTick(s1, nf)

\* engineTimer's end with the delay shortened by the frame's cost whatever the policy
EngineTimerFinishOp_AlwaysSkip(s, f, cost) ==
    LET t1 == s.now + cost
        ft == Minus(t1, s.worldTime)
        rem == Minus(f.nextFrame, ft)
        nf == IF rem # NaN /\ rem > 0 THEN rem ELSE f.nextFrame
        s1 == [s EXCEPT !.now = t1,
                        !.lastTime = s.worldTime,
                        !.frameTime = ft,
                        !.pauseTime = IF s.stepOne = 1 THEN Plus(@, ft) ELSE @,
                        !.liveTime = Minus(s.worldTime, s.upTime),
                        !.totalFrames = @ + 1,
                        !.droppedFrames =
                            @ + (IF rem # NaN /\ rem <= 0 THEN MathRound(-rem, s.fpsClock) ELSE 0),
                        !.nextFrame = nf]
    IN IF s1.stepOne = 1 THEN [s1 EXCEPT !.stepOne = 0] ELSE ScheduleTick(s1, nf)

\* engineTimer, from the return of the root traversal to its end; f is the frame
\* that held the local nextFrame, cost the clock time the traversal took
EngineTimerFinishOp(s, f, cost) ==
    LET t1 == s.now + cost
        ft == Minus(t1, s.worldTime)
        rem == Minus(f.nextFrame, ft)
        nf == IF s.skipFrames THEN (IF rem # NaN /\ rem > 0 THEN rem ELSE f.nextFrame)
              ELSE s.fpsClock
        s1 == [s EXCEPT !.now = t1,
                        !.lastTime = s.worldTime,
                        !.frameTime = ft,
                        !.pauseTime = IF s.stepOne = 1 THEN Plus(@, ft) ELSE @,
                        !.liveTime = Minus(s.worldTime, s.upTime),
                        !.totalFrames = @ + 1,
                        !.droppedFrames =
                            @ + (IF rem # NaN /\ rem <= 0 THEN MathRound(-rem, s.fpsClock) ELSE 0),
                        !.nextFrame = nf]
    IN IF s1.stepOne = 1 THEN [s1 EXCEPT !.stepOne = 0] ELSE ScheduleTick(s1, nf)

----------------------------------------------------------------------------
\* Engine properties

\* setFPS with Math.round in the place of Math.floor
SetFPSOp_Round(s, fps) ==
    IF fps = 0 THEN s
    ELSE [s EXCEPT !.fpsClock = MathRound(1000, fps), !.FPS = 0]

SetFPSOp(s, fps) ==
    IF fps = 0 THEN s
    ELSE [s EXCEPT !.fpsClock = 1000 \div fps, !.FPS = 0]

\* what setFPS returns: nothing, or the assertion's failure
SetFPSResult(s, fps) == IF fps = 0 THEN ASSERTION ELSE UNDEFINED

\* getFPS: fills the cache when it is empty
GetFPSOp(s) ==
    IF s.FPS = 0 THEN [s EXCEPT !.FPS = 1000 \div s.fpsClock]
    ELSE s

\* what getFPS returns
GetFPSResult(s) == GetFPSOp(s).FPS

GetFrameTime(s) == s.fpsClock

\* An option set: option key -> value, UNDEFINED for a key it does not hold.
\* A missing source (undefined) merges as the empty set does.
OptionSets == [OptionKeys -> OptionValues \cup {UNDEFINED}]

EmptyOptions == [k \in OptionKeys |-> UNDEFINED]

\* $.extend(target, source): every defined value of source is copied over target
Extend(target, source) ==
    [k \in OptionKeys |-> IF source[k] # UNDEFINED THEN source[k] ELSE target[k]]

\* the loop over a "versions" object, its keys in the order of enumeration
\* (for version strings such as "2.5" the order in which they were written):
\* an entry is merged when the version equals its key, and (again) when the
\* version is at or above its key
RECURSIVE VersionMerge(_, _)
VersionMerge(acc, versions) ==
    IF versions = <<>> THEN acc
    ELSE LET e == Head(versions)
             a1 == IF SysInfo.version = e.key THEN Extend(acc, e.opts) ELSE acc
             a2 == IF SysInfo.version >= e.key THEN Extend(a1, e.opts) ELSE a1
         IN VersionMerge(a2, Tail(versions))

\* the four sources of setOptions; opts.platforms[os] is a sequence, empty when
\* opts.platforms has no key os
ConfigOpts(opts) == opts.defaults

OsOpts(opts) == opts.platforms[SysInfo.OS]

PlatformDefaults(opts) ==
    IF OsOpts(opts) = <<>> THEN EmptyOptions ELSE OsOpts(opts)[1].defaults

VersionDefaults(opts) == VersionMerge(EmptyOptions, opts.versions)

PlatformVersions(opts) ==
    IF OsOpts(opts) = <<>> THEN EmptyOptions
    ELSE VersionMerge(EmptyOptions, OsOpts(opts)[1].versions)

\* the engine reads options.nativeAnimationFrame for its truth value
Truthy(v) == v = "true"

\* setOptions with the sources merged in the opposite order
SetOptionsOp_Reversed(s, opts) ==
    LET merged == Extend(Extend(Extend(Extend(s.options, PlatformVersions(opts)),
                                       VersionDefaults(opts)),
                                PlatformDefaults(opts)),
                         ConfigOpts(opts))
    IN [s EXCEPT !.options = merged,
                 !.nativeAnimationFrame = Truthy(merged["nativeAnimationFrame"])]

SetOptionsOp(s, opts) ==
    LET merged == Extend(Extend(Extend(Extend(s.options, ConfigOpts(opts)),
                                       PlatformDefaults(opts)),
                                VersionDefaults(opts)),
                         PlatformVersions(opts))
    IN [s EXCEPT !.options = merged,
                 !.nativeAnimationFrame = Truthy(merged["nativeAnimationFrame"])]

----------------------------------------------------------------------------
\* Global object management

\* destroy without the null check
DestroyOp_NoNullCheck(s, obj) ==
    [s EXCEPT !.livingObjects = @ - 1,
              !.objState = [o \in Objects |-> IF o = obj THEN "dead" ELSE @[o]]]

DestroyOp(s, obj) ==
    IF obj = NULL THEN s
    ELSE [s EXCEPT !.livingObjects = @ - 1, !.objState[obj] = "dead"]

\* obj.destroy() of a pooled object: hands the object back to the engine
PooledObjectDestroy(s, obj) == DestroyOp(s, obj)

\* Number to string conversion of the + operator: the decimal digits of n
RECURSIVE ToString(_)
ToString(n) ==
    IF n < 10 THEN <<DecimalDigits[n + 1]>>
    ELSE ToString(n \div 10) \o <<DecimalDigits[(n % 10) + 1]>>

\* obj.getName() + R.Engine.idRef
ObjId(obj, ref) == GetName(obj) \o ToString(ref)

\* create with the id counted before the engine's state is looked at
CreateOp_CountFirst(s, obj) ==
    LET s1 == [s EXCEPT !.idRef = @ + 1]
    IN IF s.shuttingDown THEN PooledObjectDestroy(s1, obj)
       ELSE IF ~s.started THEN s1
       ELSE [s1 EXCEPT !.livingObjects = @ + 1, !.objState[obj] = "live",
                       !.issued = @ \cup {ObjId(obj, s1.idRef)}]

CreateOp(s, obj) ==
    IF s.shuttingDown THEN PooledObjectDestroy(s, obj)
    ELSE IF ~s.started THEN s
    ELSE [s EXCEPT !.idRef = @ + 1, !.livingObjects = @ + 1, !.objState[obj] = "live",
                   !.issued = @ \cup {ObjId(obj, s.idRef + 1)}]

\* what create returns: null, the assertion's failure, or the id
CreateResult(s, obj) ==
    IF s.shuttingDown THEN NULL
    ELSE IF ~s.started THEN ASSERTION
    ELSE ObjId(obj, s.idRef + 1)

\* obj.getId(): the objects of the scene are known by their ids
GetId(obj) == obj

\* the function search of getObject, over the objects the iterator of a
\* container has yet to return
RECURSIVE Search(_, _, _)
Search(s, rest, id) ==
    IF rest = <<>> THEN NULL
    ELSE LET obj == Head(rest)
         IN IF GetId(obj) = id THEN obj
            ELSE IF obj \in Containers THEN Search(s, s.contents[obj], id)
            ELSE Search(s, Tail(rest), id)

\* what getObject returns
GetObject(s, id) == Search(s, s.contents[RootContext], id)

\* container.add(obj): the object goes to the end of the container
ContainerAddOp(s, c, obj) == [s EXCEPT !.contents[c] = Append(@, obj)]

\* container.remove(obj)
ContainerRemoveOp(s, c, obj) ==
    [s EXCEPT !.contents[c] = SelectSeq(@, LAMBDA o : o # obj)]

AddTimerOp(s, timerName, st) == [s EXCEPT !.timerPool[timerName] = st]

RemoveTimerOp(s, timerName) == [s EXCEPT !.timerPool[timerName] = "absent"]

\* for (var tm in R.Engine.timerPool) R.Engine.timerPool[tm].<method>()
EachTimer(pool, st) == [n \in TimerNames |-> IF pool[n] = "absent" THEN "absent" ELSE st]

----------------------------------------------------------------------------
\* Engine process control

\* startup with the built-in scripts requested before the checks
StartupOp_LoadFirst(s, supported) ==
    LET s1 == [s EXCEPT !.loadedScripts = TRUE]
    IN IF s.running THEN s1
       ELSE IF ~supported THEN s1
       ELSE [s1 EXCEPT !.upTime = s.now, !.started = TRUE, !.totalFrames = 0,
                       !.reissue = "none", !.cancelled = {}]

StartupOp(s, supported) ==
    IF s.running THEN s
    ELSE IF ~supported THEN s
    ELSE [s EXCEPT !.upTime = s.now, !.started = TRUE, !.totalFrames = 0,
                   !.reissue = "none", !.loadedScripts = TRUE, !.cancelled = {}]

\* what startup returns: the assertion's failure, false or true
StartupResult(s, supported) ==
    IF s.running THEN ASSERTION
    ELSE IF ~supported THEN "false"
    ELSE "true"

\* run without the loop that restarts the timers
RunOp_NoRestart(s) ==
    IF s.shuttingDown \/ s.running THEN s
    ELSE EngineTimerOp([s EXCEPT !.running = TRUE,
                                 !.shuttingDown = FALSE,
                                 !.paused = FALSE,
                                 !.pauseTime = s.now,
                                 !.stepOne = 0,
                                 !.lastTime = s.now - s.fpsClock])

\* run that leaves lastTime as the last frame set it
RunOp_NoSeed(s) ==
    IF s.shuttingDown \/ s.running THEN s
    ELSE EngineTimerOp([s EXCEPT !.timerPool = EachTimer(@, "running"),
                                 !.running = TRUE,
                                 !.shuttingDown = FALSE,
                                 !.paused = FALSE,
                                 !.pauseTime = s.now,
                                 !.stepOne = 0])

RunOp(s) ==
    IF s.shuttingDown \/ s.running THEN s
    ELSE EngineTimerOp([s EXCEPT !.timerPool = EachTimer(@, "running"),
                                 !.running = TRUE,
                                 !.shuttingDown = FALSE,
                                 !.paused = FALSE,
                                 !.pauseTime = s.now,
                                 !.stepOne = 0,
                                 !.lastTime = s.now - s.fpsClock])

\* step without the test of running
StepOp_NoGuard(s) == EngineTimerOp([s EXCEPT !.stepOne = 1])

StepOp(s) ==
    IF s.running THEN s
    ELSE EngineTimerOp([s EXCEPT !.stepOne = 1])

\* pause without the test of shuttingDown
PauseOp_NoGuard(s) ==
    [s EXCEPT !.timerPool = EachTimer(@, "paused"),
              !.globalPending = FALSE,
              !.running = FALSE,
              !.paused = TRUE,
              !.pauseTime = s.now]

PauseOp(s) ==
    IF s.shuttingDown THEN s
    ELSE [s EXCEPT !.timerPool = EachTimer(@, "paused"),
                   !.globalPending = FALSE,
                   !.running = FALSE,
                   !.paused = TRUE,
                   !.pauseTime = s.now]

OnShutdownOp(s) ==
    IF s.shuttingDown THEN s
    ELSE [s EXCEPT !.shutdownCallbacks = Append(@, s.nextCb), !.nextCb = @ + 1]

\* shutdown, after the root context has been destroyed
ShutdownFinishOp(s) ==
    [s EXCEPT !.loadedScripts = FALSE, !.defaultContext = FALSE, !.shuttingDown = FALSE]

\* the same with the timers cancelled and left in the pool
ShutdownTimersOp_KeepPool(s) ==
    Push([s EXCEPT !.cancelled = {n \in TimerNames : s.timerPool[n] # "absent"},
                   !.running = FALSE,
                   !.paused = FALSE,
                   !.defaultContext = TRUE],
         Frame("ctxDestroy", 0))

\* shutdown, from the end of the callback loop to the destruction of the root context
ShutdownTimersOp(s) ==
    Push([s EXCEPT !.cancelled = {n \in TimerNames : s.timerPool[n] # "absent"},
                   !.timerPool = [n \in TimerNames |-> "absent"],
                   !.running = FALSE,
                   !.paused = FALSE,
                   !.defaultContext = TRUE],
         Frame("ctxDestroy", 0))

\* the callback loop taking the callbacks from the end of the queue (pop for shift)
ShutdownCallbacksOp_Pop(s) ==
    IF Len(s.shutdownCallbacks) > 0
    THEN Push([s EXCEPT !.shutdownCallbacks = SubSeq(@, 1, Len(@) - 1),
                        !.cbLog = Append(@, s.shutdownCallbacks[Len(s.shutdownCallbacks)])],
              Frame("callback", 0))
    ELSE ShutdownTimersOp(s)

\* shutdown, the callback loop: one iteration hands control to the callback
ShutdownCallbacksOp(s) ==
    IF Len(s.shutdownCallbacks) > 0
    THEN Push([s EXCEPT !.shutdownCallbacks = Tail(@),
                        !.cbLog = Append(@, Head(s.shutdownCallbacks))],
              Frame("callback", 0))
    ELSE ShutdownTimersOp(s)

\* shutdown without the guard against a second shutdown
ShutdownOp_NoGuard(s) ==
    IF ~s.running /\ s.started
    THEN [s EXCEPT !.shuttingDown = TRUE, !.running = TRUE, !.paused = FALSE,
                   !.reissue = "pending"]
    ELSE ShutdownCallbacksOp([s EXCEPT !.shuttingDown = TRUE,
                                       !.started = FALSE,
                                       !.globalPending = FALSE])

ShutdownOp(s) ==
    IF s.shuttingDown THEN s
    ELSE IF ~s.running /\ s.started
         THEN [s EXCEPT !.shuttingDown = TRUE, !.running = TRUE, !.paused = FALSE,
                        !.reissue = "pending"]
         ELSE ShutdownCallbacksOp([s EXCEPT !.shuttingDown = TRUE,
                                            !.started = FALSE,
                                            !.globalPending = FALSE])

\* the rest of the handler that opened the innermost frame
ReturnOp(s, cost) ==
    LET f == Top(s)
        s1 == Pop(s)
    IN CASE f.kind = "update" -> EngineTimerFinishOp(s1, f, cost)
         [] f.kind = "callback" -> ShutdownCallbacksOp(s1)
         [] f.kind = "ctxDestroy" -> ShutdownFinishOp(s1)

----------------------------------------------------------------------------
\* The billboard component

\* the constructor, for a new component or one taken back from the pool
Billboard2DOp(s) == [s EXCEPT !.mode = REDRAW]

Billboard2DReleaseOp(s) == [s EXCEPT !.mode = NULL]

SetGameObjectOp(s) == [s EXCEPT !.gameObject = "host"]

\* regenerate that leaves the mode as it is
RegenerateOp_KeepMode(s) ==
    IF s.gameObject = NULL THEN [s EXCEPT !.hostRect = NULL]
    ELSE [s EXCEPT !.hostRect = NULL, !.markDirtyCalls = @ + 1]

\* regenerate; without a game object the call of markDirty fails after the
\* two assignments
RegenerateOp(s) ==
    IF s.gameObject = NULL THEN [s EXCEPT !.mode = REDRAW, !.hostRect = NULL]
    ELSE [s EXCEPT !.mode = REDRAW, !.hostRect = NULL, !.markDirtyCalls = @ + 1]

\* transformOrigin(renderContext, apply) of the render component: moves the
\* context to the origin of the game object, or back
TransformOrigin(s, apply) == [s EXCEPT !.transform = IF apply THEN @ + 1 ELSE @ - 1]

\* renderContext.drawImage(box, image, gameObject): draws, or fails
DrawImage(s, drawOk) == [s EXCEPT !.blit = IF drawOk THEN "drawn" ELSE "failed"]

\* the first part of execute: the snapshot is rendered when the mode is REDRAW
RedrawOp(s) ==
    IF s.mode = REDRAW
    THEN [s EXCEPT !.billboard = "img", !.renders = @ + 1, !.snapshot = s.renders + 1,
                   !.mode = NORMAL]
    ELSE s

\* execute that renders the snapshot at every draw pass
ExecuteOp_AlwaysRender(s, baseOk, drawOk) ==
    IF ~baseOk THEN s
    ELSE IF s.gameObject = NULL THEN s
    ELSE LET s1 == [s EXCEPT !.billboard = "img", !.renders = @ + 1,
                             !.snapshot = s.renders + 1, !.mode = NORMAL]
         IN TransformOrigin(DrawImage(TransformOrigin(s1, TRUE), drawOk), FALSE)

\* execute without the try and catch around drawImage: a failure leaves it
\* at the call
ExecuteOp_NoCatch(s, baseOk, drawOk) ==
    IF ~baseOk THEN s
    ELSE IF s.gameObject = NULL THEN s
    ELSE LET s1 == DrawImage(TransformOrigin(RedrawOp(s), TRUE), drawOk)
         IN IF drawOk THEN TransformOrigin(s1, FALSE) ELSE s1

\* execute; baseOk is what the execute of the base class returns, drawOk
\* whether drawImage succeeds.  Without a game object the read of the
\* bounding box fails before anything is drawn.
ExecuteOp(s, baseOk, drawOk) ==
    IF ~baseOk THEN s
    ELSE IF s.gameObject = NULL THEN s
    ELSE TransformOrigin(DrawImage(TransformOrigin(RedrawOp(s), TRUE), drawOk), FALSE)

\* how execute ends: it returns, or the read of the bounding box of a missing
\* game object fails
ExecuteResult(s, baseOk, drawOk) ==
    IF baseOk /\ s.gameObject = NULL THEN "TypeError" ELSE UNDEFINED

----------------------------------------------------------------------------
\* The events of a BaseObject

\* names and event types are sequences of characters or of groups of characters
OwnerNames == {<<"a">>, <<"b">>}
EventTypes == {<<"click">>}
DocumentName == <<"document">>
\* a null ref: no owner, the binding is a global one
NoOwner == <<>>
Functions == {"h1", "h2"}

\* ref.getName() + "," + type
EventKey(name, type) == name \o <<",">> \o type

EventKeys == {EventKey(n, t) : n \in OwnerNames \cup {DocumentName}, t \in EventTypes}

\* key.split(",")[1]
SplitSecond(key) ==
    LET commas == {i \in 1..Len(key) : key[i] = ","}
        first == CHOOSE i \in commas : \A j \in commas : i <= j
        later == {i \in commas : i > first}
        stop == IF later = {} THEN Len(key) + 1
                ELSE CHOOSE i \in later : \A j \in later : i <= j
    IN SubSeq(key, first + 1, stop - 1)

IsFunction(v) == v \in Functions

\* a || b
Or(a, b) == IF a # UNDEFINED THEN a ELSE b

\* R.engine.Events.setHandler(target, type, callback): attaches the callback;
\* by is the bookkeeping key the handler was attached under
SetHandler(s, target, type, callback, by) ==
    [s EXCEPT !.bound = @ \cup {[target |-> target, type |-> type, fn |-> callback, by |-> by]}]

\* R.engine.Events.clearHandler(target, type, fn): detaches that function, or
\* every handler of the type when no function is given; nothing for no target
ClearHandler(s, target, type, fn) ==
    IF target = NULL THEN s
    ELSE [s EXCEPT !.bound = {b \in @ : ~(/\ b.target = target /\ b.type = type
                                           /\ (fn = UNDEFINED \/ b.fn = fn))}]

\* the constructor, for a new object or one taken back from the pool
BaseObjectOp(s) ==
    [s EXCEPT !.events = [k \in EventKeys |-> ABSENT], !.destroyed = FALSE]

SetElementOp(s, el) == [s EXCEPT !.element = el]

\* this.events[key], undefined for a key the object does not hold
EventOf(s, key) == IF s.events[key] = ABSENT THEN UNDEFINED ELSE s.events[key]

\* addEvent; func is read before it is assigned in the branch of a null ref
AddEventOp(s, ref, type, data, fn) ==
    IF ref = NoOwner
    THEN [SetHandler(s, "document", type, Or(data, fn), EventKey(DocumentName, type))
             EXCEPT !.events[EventKey(DocumentName, type)] = UNDEFINED]
    ELSE IF s.element # NULL
         THEN [SetHandler(s, s.element, type, Or(data, fn), EventKey(ref, type))
                  EXCEPT !.events[EventKey(ref, type)] = IF IsFunction(data) THEN data ELSE fn]
         ELSE s

\* removeEvent
RemoveEventOp(s, ref, type) ==
    IF ref = NoOwner
    THEN ClearHandler(s, "document", type, EventOf(s, EventKey(DocumentName, type)))
    ELSE IF s.element # NULL
         THEN LET fn == EventOf(s, EventKey(ref, type))
                  s1 == IF fn # UNDEFINED THEN ClearHandler(s, s.element, type, fn) ELSE s
              IN [s1 EXCEPT !.events[EventKey(ref, type)] = ABSENT]
         ELSE s

\* the loop of destroy over the keys of this.events
RECURSIVE ClearEvents(_, _)
ClearEvents(s, keys) ==
    IF keys = {} THEN s
    ELSE LET key == CHOOSE k \in keys : TRUE
             fn == EventOf(s, key)
             s1 == IF fn # UNDEFINED
                   THEN ClearHandler(s, s.element, SplitSecond(key), fn)
                   ELSE s
         IN ClearEvents(s1, keys \ {key})

\* $(element).empty().remove(): the element goes with the handlers attached to it
RemoveElement(s) ==
    IF s.element = NULL THEN s
    ELSE [s EXCEPT !.bound = {b \in @ : b.target # s.element}]

\* destroy of a BaseObject
BaseObjectDestroyOp(s) ==
    [RemoveElement(ClearEvents(s, {k \in EventKeys : s.events[k] # ABSENT}))
        EXCEPT !.destroyed = TRUE]

----------------------------------------------------------------------------
\* Actions

UpdateFrames(s) == Cardinality({i \in 1..Len(s.stack) : s.stack[i].kind = "update"})

Within(r) ==
    /\ Len(r.stack) <= MaxDepth
    /\ r.totalFrames + UpdateFrames(r) <= MaxFrames
    /\ r.now <= MaxTime
    /\ r.livingObjects >= -MaxDebt
    /\ r.nextCb <= MaxCallbacks + 1
    /\ r.orphanTicks <= MaxOrphans
    /\ r.droppedFrames <= MaxDropped
    /\ r.renders <= MaxRenders
    /\ r.markDirtyCalls <= MaxMarks

Idle == stack = <<>>

InFrame(k) == \E i \in 1..Len(stack) : stack[i].kind = k

Startup ==
    \E supported \in BOOLEAN :
        LET r == StartupOp(Cur, supported) IN Within(r) /\ Commit(r)

SetFPS ==
    /\ Idle
    /\ \E fps \in FpsValues : LET r == SetFPSOp(Cur, fps) IN Within(r) /\ Commit(r)

\* the option sets and the version entries the configurations are made of
NativeOn == [k \in OptionKeys |-> IF k = "nativeAnimationFrame" THEN "true" ELSE UNDEFINED]

NativeOff == [k \in OptionKeys |-> IF k = "nativeAnimationFrame" THEN "false" ELSE "true"]

DirtyOff == [k \in OptionKeys |-> IF k = "nativeAnimationFrame" THEN UNDEFINED ELSE "false"]

SourceSets == {EmptyOptions, NativeOn, NativeOff, DirtyOff}

VersionEntries ==
    {[key |-> 1, opts |-> NativeOn], [key |-> 2, opts |-> NativeOff],
     [key |-> 3, opts |-> DirtyOff]}

VersionLists(n) == UNION {[1..m -> VersionEntries] : m \in 0..n}

PlatformEntries ==
    {<<>>} \cup {<<[defaults |-> d, versions |-> v]>> :
                    d \in SourceSets, v \in {<<>>} \cup {<<e>> : e \in VersionEntries}}

\* the entry of a platform the process does not run on
OtherPlatformEntry == <<[defaults |-> NativeOn, versions |-> <<[key |-> 1, opts |-> DirtyOff]>>]>>

\* the configurations handed to setOptions
OptsInputs ==
    {[defaults |-> d,
      platforms |-> [os \in OSNames |-> IF os = SysInfo.OS THEN p ELSE OtherPlatformEntry],
      versions |-> v] :
        d \in SourceSets, p \in PlatformEntries, v \in VersionLists(MaxVersions)}

SetOptions ==
    /\ Idle
    /\ \E opts \in OptsInputs : LET r == SetOptionsOp(Cur, opts) IN Within(r) /\ Commit(r)

Billboard2D ==
    /\ mode = NULL
    /\ LET r == Billboard2DOp(Cur) IN Within(r) /\ Commit(r)

Billboard2DRelease ==
    /\ mode # NULL
    /\ LET r == Billboard2DReleaseOp(Cur) IN Within(r) /\ Commit(r)

SetGameObject ==
    /\ mode # NULL
    /\ LET r == SetGameObjectOp(Cur) IN Within(r) /\ Commit(r)

Regenerate ==
    /\ mode # NULL
    /\ LET r == RegenerateOp(Cur) IN Within(r) /\ Commit(r)

Execute ==
    /\ mode # NULL
    /\ \E baseOk, drawOk \in BOOLEAN :
           LET r == ExecuteOp(Cur, baseOk, drawOk) IN Within(r) /\ Commit(r)

BaseObject ==
    /\ destroyed
    /\ LET r == BaseObjectOp(Cur) IN Within(r) /\ Commit(r)

SetElement ==
    /\ ~destroyed
    /\ \E el \in {NULL, "el"} : LET r == SetElementOp(Cur, el) IN Within(r) /\ Commit(r)

\* the handler is given as data (three arguments) or as fn
AddEvent ==
    /\ ~destroyed
    /\ \E ref \in OwnerNames \cup {NoOwner}, type \in EventTypes,
          data \in Functions \cup {UNDEFINED}, fn \in Functions \cup {UNDEFINED} :
           /\ (data \in Functions) # (fn \in Functions)
           /\ LET r == AddEventOp(Cur, ref, type, data, fn) IN Within(r) /\ Commit(r)

RemoveEvent ==
    /\ ~destroyed
    /\ \E ref \in OwnerNames \cup {NoOwner}, type \in EventTypes :
           LET r == RemoveEventOp(Cur, ref, type) IN Within(r) /\ Commit(r)

BaseObjectDestroy ==
    /\ ~destroyed
    /\ LET r == BaseObjectDestroyOp(Cur) IN Within(r) /\ Commit(r)

\* the objects a container holds
Holds(c) == {contents[c][i] : i \in 1..Len(contents[c])}

\* an object is held by one container at most, and no container holds itself
\* or the container it is held by
ContainerAdd ==
    \E c \in Containers \cup {RootContext}, obj \in SceneObjects :
        /\ \A d \in Containers \cup {RootContext} : obj \notin Holds(d)
        /\ obj # c
        /\ obj \in Containers => c \notin Holds(obj)
        /\ LET r == ContainerAddOp(Cur, c, obj) IN Within(r) /\ Commit(r)

ContainerRemove ==
    \E c \in Containers \cup {RootContext}, obj \in SceneObjects :
        /\ obj \in Holds(c)
        /\ LET r == ContainerRemoveOp(Cur, c, obj) IN Within(r) /\ Commit(r)

GetFPS == LET r == GetFPSOp(Cur) IN Within(r) /\ Commit(r)

Run == LET r == RunOp(Cur) IN Within(r) /\ Commit(r)

Step == LET r == StepOp(Cur) IN Within(r) /\ Commit(r)

Pause == LET r == PauseOp(Cur) IN Within(r) /\ Commit(r)

OnShutdown == LET r == OnShutdownOp(Cur) IN Within(r) /\ Commit(r)

Shutdown == LET r == ShutdownOp(Cur) IN Within(r) /\ Commit(r)

AddTimer ==
    \E n \in TimerNames, st \in {"running", "paused"} :
        LET r == AddTimerOp(Cur, n, st) IN Within(r) /\ Commit(r)

RemoveTimer ==
    \E n \in TimerNames : LET r == RemoveTimerOp(Cur, n) IN Within(r) /\ Commit(r)

\* the constructor of a pooled object (new, or taken back from the pool) calls create
Create ==
    \E o \in Objects :
        /\ objState[o] # "live"
        /\ LET r == CreateOp(Cur, o) IN r.idRef <= MaxId /\ Within(r) /\ Commit(r)

\* the same over a long series of constructions, the objects being taken back
\* from the pool
CreateAgain ==
    \E o \in Objects :
        /\ objState[o] # "live"
        /\ LET r == CreateOp(Cur, o) IN r.idRef <= MaxIssued /\ Within(r) /\ Commit(r)

\* destroy is called on null or on an object that was constructed before
Destroy ==
    \E o \in Objects \cup {NULL} :
        /\ o # NULL => objState[o] # "new"
        /\ LET r == DestroyOp(Cur, o) IN Within(r) /\ Commit(r)

\* the game code of the innermost frame returns
Return ==
    /\ stack # <<>>
    /\ \E cost \in Costs : LET r == ReturnOp(Cur, cost) IN Within(r) /\ Commit(r)

\* a frame of game code that takes no measurable clock time
ReturnQuick ==
    /\ stack # <<>>
    /\ LET r == ReturnOp(Cur, 0) IN Within(r) /\ Commit(r)

\* time passes between handlers
Wait ==
    /\ Idle
    /\ \E d \in Waits : LET r == [Cur EXCEPT !.now = @ + d] IN Within(r) /\ Commit(r)

\* the timeout of R.Engine.globalTimer fires
TimerFire ==
    /\ Idle
    /\ globalPending
    /\ LET r == EngineTimerOp([Cur EXCEPT !.globalPending = FALSE])
       IN Within(r) /\ Commit(r)

\* a tick request that globalTimer does not designate fires
OrphanFire ==
    /\ Idle
    /\ orphanTicks > 0
    /\ LET r == EngineTimerOp([Cur EXCEPT !.orphanTicks = @ - 1])
       IN Within(r) /\ Commit(r)

\* the timeout set by shutdown() on a paused engine fires
ReissueFire ==
    /\ Idle
    /\ reissue = "pending"
    /\ LET r == ShutdownOp([Cur EXCEPT !.reissue = "done"]) IN Within(r) /\ Commit(r)

InitWith(skips, natives) ==
    /\ started = FALSE /\ running = FALSE /\ shuttingDown = FALSE
    /\ stepOne = 0 /\ pauseTime = NaN
    /\ fpsClock = DefaultFpsClock
    /\ skipFrames \in skips
    /\ nativeAnimationFrame \in natives
    /\ upTime = 0 /\ worldTime = 0 /\ lastTime = 0 /\ liveTime = 0 /\ frameTime = 0
    /\ totalFrames = 0 /\ droppedFrames = 0
    /\ idRef = 0 /\ livingObjects = 0
    /\ timerPool = [n \in TimerNames |-> "absent"]
    /\ shutdownCallbacks = <<>>
    /\ defaultContext = FALSE
    /\ now = 0
    /\ globalPending = FALSE /\ orphanTicks = 0
    /\ reissue = "none"
    /\ nextFrame = 0
    /\ stack = <<>>
    /\ cbLog = <<>>
    /\ nextCb = 1
    /\ cancelled = {}
    /\ objState = [o \in Objects |-> "new"]
    /\ paused = FALSE
    /\ FPS = 0
    /\ loadedScripts = FALSE
    /\ issued = {}
    /\ options = [k \in OptionKeys |->
                      IF k = "nativeAnimationFrame" /\ nativeAnimationFrame
                      THEN "true" ELSE UNDEFINED]
    /\ mode = REDRAW /\ hostRect = NULL /\ billboard = NULL
    /\ gameObject = NULL /\ renders = 0 /\ markDirtyCalls = 0
    /\ snapshot = 0 /\ transform = 0 /\ blit = "none"
    /\ element = NULL /\ events = [k \in EventKeys |-> ABSENT]
    /\ destroyed = FALSE /\ bound = {}
    /\ contents = [c \in Containers \cup {RootContext} |-> <<>>]

\* The lifecycle, the timer pool and the shutdown callbacks, with game code
\* calling back into the engine; frames take no clock time
Init == InitWith({TRUE}, {FALSE})

Next ==
    \/ (Idle /\ Startup)
    \/ Run
    \/ Step
    \/ Pause
    \/ OnShutdown
    \/ Shutdown
    \/ AddTimer
    \/ RemoveTimer
    \/ ReturnQuick
    \/ TimerFire
    \/ OrphanFire
    \/ ReissueFire

Spec == Init /\ [][Next]_vars

\* The frame scheduler against the clock; the game calls the engine between
\* frames only
InitSched == InitWith(BOOLEAN, {FALSE})

NextSched ==
    \/ (Idle /\ Startup)
    \/ SetFPS
    \/ (Idle /\ GetFPS)
    \/ (Idle /\ Run)
    \/ (Idle /\ Step)
    \/ (Idle /\ Pause)
    \/ Return
    \/ Wait
    \/ TimerFire

SpecSched == InitSched /\ [][NextSched]_vars

\* The identity registry across startup and shutdown
InitObj == InitWith({TRUE}, {FALSE})

NextObj ==
    \/ (Idle /\ Startup)
    \/ Run
    \/ Pause
    \/ Shutdown
    \/ Create
    \/ Destroy
    \/ ReturnQuick
    \/ TimerFire
    \/ ReissueFire

SpecObj == InitObj /\ [][NextObj]_vars

\* The shutdown sequence of a running engine (shutdown() is called on a
\* started and running engine only), with the game code it runs calling back into the
\* engine, startup() included
InitDown == InitWith({TRUE}, {FALSE})

NextDown ==
    \/ Startup
    \/ (Idle /\ Run)
    \/ Step
    \/ OnShutdown
    \/ (started /\ running /\ Shutdown)
    \/ AddTimer
    \/ ReturnQuick
    \/ TimerFire

SpecDown == InitDown /\ [][NextDown]_vars

\* The engine options and the scheduler that reads them
InitOpts == InitWith({TRUE}, {FALSE})

NextOpts ==
    \/ SetOptions
    \/ (Idle /\ Startup)
    \/ (Idle /\ Run)
    \/ (Idle /\ Pause)
    \/ ReturnQuick
    \/ TimerFire
    \/ OrphanFire

SpecOpts == InitOpts /\ [][NextOpts]_vars

\* The billboard component, drawn by the frames of the engine
InitBillboard == InitWith({TRUE}, {FALSE})

NextBillboard ==
    \/ (Idle /\ Startup)
    \/ (Idle /\ Run)
    \/ ReturnQuick
    \/ TimerFire
    \/ Billboard2D
    \/ Billboard2DRelease
    \/ SetGameObject
    \/ Regenerate
    \/ (InFrame("update") /\ Execute)

SpecBillboard == InitBillboard /\ [][NextBillboard]_vars

\* The events of a BaseObject
InitEvents == InitWith({TRUE}, {FALSE})

NextEvents ==
    \/ BaseObject
    \/ SetElement
    \/ AddEvent
    \/ RemoveEvent
    \/ BaseObjectDestroy

SpecEvents == InitEvents /\ [][NextEvents]_vars

\* The scene: the container tree under the default context
InitScene == InitWith({TRUE}, {FALSE})

NextScene ==
    \/ ContainerAdd
    \/ ContainerRemove

SpecScene == InitScene /\ [][NextScene]_vars

\* The ids handed out over a long series of constructions
InitIds == InitWith({TRUE}, {FALSE})

NextIds ==
    \/ (Idle /\ Startup)
    \/ CreateAgain
    \/ Destroy

SpecIds == InitIds /\ [][NextIds]_vars

----------------------------------------------------------------------------
\* Properties

PoolEmpty == \A n \in TimerNames : timerPool[n] = "absent"

\* the step returns from the root traversal into the end of engineTimer
UpdateReturns == stack # <<>> /\ Top(Cur).kind = "update" /\ Len(stack') < Len(stack)

Range(q) == {q[i] : i \in 1..Len(q)}

\* C1: once the shutdown re-issued by a shutdown() of a started, paused engine has
\* run, the full shutdown sequence has been performed: started is false, the
\* callback queue is drained, the timer pool is empty and shuttingDown is false.
C1_ReissuedShutdownCompletes ==
    (reissue = "done" /\ Idle) =>
        (~started /\ ~shuttingDown /\ shutdownCallbacks = <<>> /\ PoolEmpty)

\* C2: wherever the game can call shutdown() while shuttingDown is true (in a
\* shutdown callback, during the destruction of the root context, while the
\* re-issue is pending), the call changes nothing: no flag, no callback
\* invoked, no timer cancelled, no frame opened.
C2_ShutdownIdempotent == shuttingDown => ShutdownOp(Cur) = Cur

C2_Witness ==
    /\ shuttingDown /\ stack # <<>> /\ Top(Cur).kind = "callback"
    /\ shutdownCallbacks # <<>> /\ ~PoolEmpty

C4_PauseRunKeepsTotalFrames ==
    (started /\ running /\ ~shuttingDown /\ Idle) =>
        LET r == RunOp(PauseOp(Cur))
        IN /\ \A n \in TimerNames : timerPool[n] # "absent" => r.timerPool[n] = "running"
           /\ \A c \in Costs : ReturnOp(r, c).totalFrames = totalFrames

\* C4 as amended: from a running engine that is not shutting down, pause()
\* pauses every pooled timer and leaves totalFrames unchanged; the run() that
\* follows restarts every pooled timer and executes one traversal at once, so
\* that totalFrames is exactly one more than before pause() when that
\* traversal (making no engine call itself) has completed.
C4_PauseRunAddsOneFrame ==
    (running /\ ~shuttingDown) =>
        LET p == PauseOp(Cur)
            r == RunOp(p)
        IN /\ p.totalFrames = totalFrames
           /\ \A n \in TimerNames : timerPool[n] # "absent" =>
                  (p.timerPool[n] = "paused" /\ r.timerPool[n] = "running")
           /\ r.totalFrames = totalFrames
           /\ Len(r.stack) = Len(stack) + 1 /\ Top(r).kind = "update"
           /\ \A c \in Costs : ReturnOp(r, c).totalFrames = totalFrames + 1

C4_Witness ==
    /\ running /\ ~shuttingDown /\ Idle /\ totalFrames = 2
    /\ timerPool["t1"] = "running" /\ timerPool["t2"] = "running"

\* C5: whenever the engine is paused (pause() cleared running, no run() or
\* shutdown() since), every timer in the pool is paused.
C5_NoTimerRunsWhilePaused ==
    (paused /\ started /\ ~running /\ ~shuttingDown /\ totalFrames > 0) =>
        \A n \in TimerNames : timerPool[n] \in {"absent", "paused"}

\* C6: totalFrames increases by exactly 1 at each completed traversal, changes
\* at no other step but a startup, and never decreases except by a startup.
C6_TotalFramesCountsTraversals ==
    [][/\ UpdateReturns => totalFrames' = totalFrames + 1
       /\ (~UpdateReturns /\ ~Startup) => totalFrames' = totalFrames
       /\ ~Startup => totalFrames' >= totalFrames]_vars

C6_Witness == started /\ running /\ Idle /\ totalFrames = MaxFrames /\ paused = FALSE

\* C7 as claimed: under skipFrames a tick whose frameTime exceeds fpsClock
\* chooses a delay smaller than fpsClock for the next tick.
C7_OverBudgetCatchesUp ==
    [][(UpdateReturns /\ skipFrames /\ stepOne = 0 /\ frameTime' > fpsClock)
           => nextFrame' < fpsClock]_vars

\* C7 as amended: under skipFrames a tick whose frameTime is at or over
\* fpsClock chooses exactly fpsClock as the delay of the next tick (it waits
\* the full frame period; with fpsClock = 16 and a 40 ms traversal the delay
\* is 16 ms); only a tick under budget chooses the shorter delay
\* fpsClock - frameTime.
C7_OverBudgetWaitsFullPeriod ==
    [][(UpdateReturns /\ skipFrames)
           => /\ nextFrame' = IF frameTime' # NaN /\ frameTime' < fpsClock
                               THEN fpsClock - frameTime' ELSE fpsClock
              /\ (fpsClock = 16 /\ frameTime' = 40) => nextFrame' = 16]_vars

C7_Witness ==
    /\ skipFrames /\ fpsClock = 16 /\ frameTime = 40 /\ nextFrame = 16
    /\ globalPending /\ running /\ Idle

\* C8: at every tick droppedFrames grows by round((frameTime - fpsClock) / fpsClock)
\* when frameTime is at or over fpsClock, the rounding being to the nearest
\* integer with halves rounded up, and is unchanged under budget; with
\* fpsClock = 16 and frameTime = 40 it grows by 2.
C8_DroppedFramesRounded ==
    [][UpdateReturns =>
          LET d == droppedFrames' - droppedFrames
              over == frameTime' - fpsClock
          IN /\ over < 0 => d = 0
             /\ over >= 0 => /\ (2 * d - 1) * fpsClock <= 2 * over
                             /\ 2 * over < (2 * d + 1) * fpsClock
             /\ (fpsClock = 16 /\ frameTime' = 40) => d = 2]_vars

C8_Witness == fpsClock = 16 /\ frameTime = 40 /\ droppedFrames = 2 /\ totalFrames = 1

\* C9: a successful create(obj) followed by destroy(obj) leaves livingObjects
\* as it was before the create, and destroy(null) leaves it unchanged.
C9_CreateDestroyBalanced ==
    /\ DestroyOp(Cur, NULL).livingObjects = livingObjects
    /\ (started /\ ~shuttingDown) =>
           \A o \in Objects :
               LET c == CreateOp(Cur, o)
               IN /\ c.livingObjects = livingObjects + 1
                  /\ DestroyOp(c, o).livingObjects = livingObjects

C9_Witness ==
    /\ started /\ ~shuttingDown /\ idRef = 2 /\ livingObjects = 1
    /\ objState["o1"] = "dead" /\ objState["o2"] = "live"

\* C11: create(obj) on an engine that is shutting down returns null, destroys
\* obj, leaves idRef and the issued ids unchanged and obj not registered;
\* create(obj) on an engine neither started nor shutting down fails with an
\* assertion and changes nothing, idRef and livingObjects included.
C11_CreateRefusedOrAsserts ==
    \A o \in Objects :
        LET r == CreateOp(Cur, o)
        IN /\ shuttingDown =>
                  /\ CreateResult(Cur, o) = NULL
                  /\ r.idRef = idRef /\ r.issued = issued
                  /\ r.objState[o] = "dead"
           /\ (~shuttingDown /\ ~started) =>
                  /\ CreateResult(Cur, o) = ASSERTION
                  /\ r = Cur

C11_Witness ==
    /\ shuttingDown /\ InFrame("ctxDestroy") /\ idRef = 1 /\ issued = {ObjId("o1", 1)}
    /\ objState["o1"] = "live" /\ objState["o2"] = "dead" /\ livingObjects = 0

\* C12: any two successful create() calls return different id strings: the
\* ids returned so far are as many as the successful calls (idRef counts them).
C12_IdsUnique == Cardinality(issued) = idRef

\* C13: for every fps f > 0, getFrameTime() after setFPS(f) is floor(1000/f),
\* the integer q with q*f <= 1000 < (q+1)*f; setFPS(0) fails with an assertion
\* and changes nothing.
C13_FrameTimeIsFloor ==
    \A f \in 0..MaxFps :
        LET r == SetFPSOp(Cur, f)
            q == GetFrameTime(r)
        IN /\ f > 0 => (q * f <= 1000 /\ 1000 < (q + 1) * f /\ SetFPSResult(Cur, f) = UNDEFINED)
           /\ f = 0 => (r = Cur /\ SetFPSResult(Cur, f) = ASSERTION)

C13_Witness == fpsClock = 33 /\ GetFrameTime(Cur) = 33 /\ totalFrames = 1 /\ Idle

\* C14: after setFPS(f) with 1 <= f <= 1000, getFPS() returns f, at the first
\* call and at every later one.
C14_GetFPSReturnsWhatWasSet ==
    \A f \in FpsValues :
        f > 0 => /\ GetFPSResult(SetFPSOp(Cur, f)) = f
                 /\ GetFPSResult(GetFPSOp(SetFPSOp(Cur, f))) = f

\* C15: startup() on a running engine fails with an assertion, and startup()
\* in an unsupported environment returns false; in both cases nothing is
\* started: started, totalFrames, upTime and the rest of the state keep their
\* values and the built-in scripts are not requested.
C15_NoPartialStart ==
    /\ running => \A supported \in BOOLEAN :
                      /\ StartupResult(Cur, supported) = ASSERTION
                      /\ StartupOp(Cur, supported) = Cur
    /\ ~running => /\ StartupResult(Cur, FALSE) = "false"
                   /\ StartupOp(Cur, FALSE) = Cur

C15_Witness ==
    /\ ~started /\ ~running /\ ~shuttingDown /\ ~loadedScripts /\ Idle
    /\ totalFrames = 1 /\ cbLog # <<>>

\* the step enters the destruction of the root context (shutdown has passed
\* its callback loop and cancelled the timers)
CtxDestroyBegins == Len(stack') > Len(stack) /\ stack'[Len(stack')].kind = "ctxDestroy"

\* the step returns from the destruction of the root context into the end of shutdown
CtxDestroyReturns ==
    stack # <<>> /\ Top(Cur).kind = "ctxDestroy" /\ Len(stack') < Len(stack)

\* shutdown() of a running engine goes through to the destruction of the root
\* context with nothing deferred: the call opens the first callback or the
\* destruction, and each callback's return opens the next callback or the destruction
ShutdownGoesThrough ==
    /\ (running /\ ~shuttingDown) =>
           LET r == ShutdownOp(Cur)
           IN /\ r.shuttingDown /\ ~r.started /\ ~r.globalPending /\ r.reissue = reissue
              /\ Len(r.stack) = Len(stack) + 1
              /\ Top(r).kind = IF shutdownCallbacks = <<>> THEN "ctxDestroy" ELSE "callback"
    /\ (stack # <<>> /\ Top(Cur).kind = "callback") =>
           LET r == ReturnOp(Cur, 0)
           IN /\ Len(r.stack) = Len(stack)
              /\ Top(r).kind = IF shutdownCallbacks = <<>> THEN "ctxDestroy" ELSE "callback"

OptionSources(opts) ==
    <<ConfigOpts(opts), PlatformDefaults(opts), VersionDefaults(opts), PlatformVersions(opts)>>

\* C20: after setOptions every option has the value given by the last of the
\* sources (defaults, platform defaults, version-matched overrides, platform
\* version-matched overrides) that holds it, and its previous value when no
\* applicable source holds it; a platform entry of another platform and a
\* version entry above the running version are not applicable.
C20_LaterSourceWins ==
    \A opts \in OptsInputs :
        LET r == SetOptionsOp(Cur, opts)
            src == OptionSources(opts)
        IN /\ \A k \in OptionKeys :
                  LET holders == {i \in 1..4 : src[i][k] # UNDEFINED}
                  IN IF holders = {} THEN r.options[k] = options[k]
                     ELSE \E i \in holders :
                              /\ \A j \in holders : j <= i
                              /\ r.options[k] = src[i][k]
           /\ \A e \in VersionEntries :
                  e.key > SysInfo.version => VersionMerge(EmptyOptions, <<e>>) = EmptyOptions
           /\ opts.platforms[SysInfo.OS] = <<>> =>
                  (src[2] = EmptyOptions /\ src[4] = EmptyOptions)

C20_Witness ==
    /\ options["nativeAnimationFrame"] = "false" /\ options["useDirtyRectangles"] = "true"
    /\ ~nativeAnimationFrame /\ orphanTicks = 1 /\ running /\ Idle

\* the entries of a "versions" object have different keys
DistinctKeys(versions) ==
    \A i, j \in 1..Len(versions) : versions[i].key = versions[j].key => i = j

\* C21: in the version-matched merge an option set under the key that equals
\* the running version has that value in the merged set, whatever other
\* matching (lower) keys set it and in whatever order the keys are listed: it
\* is the value of the option after setOptions unless a later source (for the
\* general versions, the platform's versions) sets the option too.
C21_ExactMatchWins ==
    \A opts \in OptsInputs :
        LET r == SetOptionsOp(Cur, opts)
            general == opts.versions
            platform == IF OsOpts(opts) = <<>> THEN <<>> ELSE OsOpts(opts)[1].versions
        IN /\ DistinctKeys(general) =>
                  \A i \in 1..Len(general), k \in OptionKeys :
                      (/\ general[i].key = SysInfo.version
                       /\ general[i].opts[k] # UNDEFINED
                       /\ PlatformVersions(opts)[k] = UNDEFINED)
                          => r.options[k] = general[i].opts[k]
           /\ DistinctKeys(platform) =>
                  \A i \in 1..Len(platform), k \in OptionKeys :
                      (/\ platform[i].key = SysInfo.version
                       /\ platform[i].opts[k] # UNDEFINED)
                          => r.options[k] = platform[i].opts[k]

\* the objects contained, at any depth, in the tree rooted at the default context
Contained ==
    LET l1 == Holds(RootContext)
        l2 == l1 \cup UNION {Holds(c) : c \in l1 \cap Containers}
    IN l2 \cup UNION {Holds(c) : c \in l2 \cap Containers}

\* C22: getObject(id) returns the object whose id is id when that object is
\* contained, at any depth and at any position among its siblings, in the
\* tree rooted at the default context, and null when no contained object has
\* that id.
C22_GetObjectFindsContained ==
    \A obj \in SceneObjects :
        GetObject(Cur, GetId(obj)) = IF obj \in Contained THEN obj ELSE NULL

\* the engine as a tick finds it when its timeout, or a request that
\* globalTimer does not designate, fires
AtTimerFire == [Cur EXCEPT !.globalPending = FALSE]

AtOrphanFire == [Cur EXCEPT !.orphanTicks = @ - 1]

\* C23: a tick that fires while shuttingDown is true, or while the engine is
\* not running and no single step is pending, returns at once: no traversal
\* is opened, worldTime, lastTime, frameTime, liveTime, totalFrames and
\* droppedFrames (and every other field) keep their values and no further
\* tick is scheduled.
C23_StaleTickDoesNothing ==
    (shuttingDown \/ (~running /\ stepOne = 0)) =>
        /\ EngineTimerOp(Cur) = Cur
        /\ globalPending => EngineTimerOp(AtTimerFire) = AtTimerFire
        /\ orphanTicks > 0 => EngineTimerOp(AtOrphanFire) = AtOrphanFire

\* a tick is pending on a paused engine after frames were drawn
C23_Witness ==
    /\ globalPending /\ ~running /\ ~shuttingDown /\ stepOne = 0 /\ started
    /\ paused /\ Idle /\ totalFrames = 2

\* C24: step() changes nothing while the engine is running.  On a paused
\* engine it opens exactly one traversal, and when that traversal returns
\* totalFrames is one more than before, no tick has been scheduled, running
\* is false, the step flag is cleared, and the timers of the pool are as they
\* were: none restarted, paused or cancelled.
C24_StepRunsOneFrame ==
    /\ running => StepOp(Cur) = Cur
    /\ (~running /\ ~shuttingDown) =>
           LET r == StepOp(Cur)
           IN /\ Len(r.stack) = Len(stack) + 1 /\ Top(r).kind = "update"
              /\ r.stepOne = 1 /\ r.totalFrames = totalFrames
              /\ r.timerPool = timerPool /\ r.cancelled = cancelled
              /\ r.globalPending = globalPending /\ r.orphanTicks = orphanTicks
              /\ \A c \in Costs :
                     LET e == ReturnOp(r, c)
                     IN /\ e.stack = stack
                        /\ e.totalFrames = totalFrames + 1
                        /\ e.globalPending = globalPending /\ e.orphanTicks = orphanTicks
                        /\ ~e.running /\ e.stepOne = 0
                        /\ e.timerPool = timerPool /\ e.cancelled = cancelled

\* the traversal of a step on a paused engine with paused timers is under way
C24_Witness ==
    /\ stepOne = 1 /\ ~running /\ ~shuttingDown /\ started /\ paused
    /\ Len(stack) = 1 /\ Top(Cur).kind = "update" /\ totalFrames = 1
    /\ timerPool["t1"] = "paused" /\ timerPool["t2"] = "paused"

\* C25: frames are strictly sequential: at most one tick is between the start
\* of its traversal and the end of its metrics update, also when the code run
\* by the traversal calls run(), step(), pause() or shutdown().
C25_FramesSequential == UpdateFrames(Cur) <= 1

\* C26: once pause() has taken effect on an engine that is not shutting down,
\* and until the next run(), no scheduler callback is pending when the engine
\* is between handlers, whether pause() was called between ticks or from
\* inside a traversal.
C26_PauseCancelsTick ==
    (paused /\ ~running /\ ~shuttingDown /\ Idle) =>
        (~globalPending /\ orphanTicks = 0)

\* the scheduler callbacks that are pending
PendingTicks(s) == (IF s.globalPending THEN 1 ELSE 0) + s.orphanTicks

\* C27: in every reachable state at most one scheduler callback is pending.
C27_OneTickChain == PendingTicks(Cur) <= 1

\* C28: after every tick, in real time or single-stepped, frameTime is the
\* cost of the tick's traversal: the clock time that passed between the start
\* and the end of the traversal call.
C28_FrameTimeIsTraversalCost ==
    [][UpdateReturns => frameTime' = now' - now]_vars

\* C29: with the skipFrames policy off, a tick that reschedules (it is not a
\* single step) sets the timeout of the next tick with the delay fpsClock,
\* whether its frameTime is under or over the budget.
C29_FixedDelayWhenPolicyOff ==
    [][(UpdateReturns /\ ~skipFrames /\ stepOne = 0)
           => (nextFrame' = fpsClock /\ globalPending')]_vars

\* ticks under and over the budget have rescheduled with the policy off
C29_Witness ==
    /\ ~skipFrames /\ fpsClock = 16 /\ frameTime = 40 /\ nextFrame = 16
    /\ globalPending /\ running /\ Idle /\ totalFrames = 2 /\ droppedFrames = 2

\* the delta engineTimer passes to the traversal it has just opened
Delta(s) == Minus(s.worldTime, s.lastTime)

\* C30: a run() that takes effect (the engine is neither running nor shutting
\* down) opens the traversal of its first tick with a delta of at least
\* fpsClock, however long the engine was paused and however many frames were
\* single-stepped before.
C30_FirstDeltaAtLeastFpsClock ==
    (~running /\ ~shuttingDown) =>
        LET r == RunOp(Cur)
        IN /\ Len(r.stack) = Len(stack) + 1 /\ Top(r).kind = "update"
           /\ Delta(r) >= r.fpsClock

\* the first traversal of a run() is under way, on an engine that was
\* single-stepped (frameTime 16 is the time it had been idle) and left idle again
C30_Witness ==
    /\ running /\ Len(stack) = 1 /\ Top(Cur).kind = "update"
    /\ totalFrames = 1 /\ frameTime = 16 /\ now >= 32 /\ pauseTime = now
    /\ Delta(Cur) = fpsClock

\* C31: run() on an engine that is running or shutting down, pause() on an
\* engine that is shutting down and onShutdown(fn) on an engine that is
\* shutting down change nothing: no flag, no timer of the pool, no pending or
\* started tick, and the callback queue is as it was.
C31_RefusedCallsChangeNothing ==
    /\ (running \/ shuttingDown) => RunOp(Cur) = Cur
    /\ shuttingDown => (PauseOp(Cur) = Cur /\ OnShutdownOp(Cur) = Cur)

\* shutdown() was called on a paused engine and its re-issue is pending: the
\* engine is running and shutting down, with paused timers, a queued callback
\* and frames drawn
C31_Witness ==
    /\ shuttingDown /\ running /\ started /\ reissue = "pending" /\ Idle
    /\ timerPool["t1"] = "paused" /\ shutdownCallbacks # <<>> /\ totalFrames = 1

\* C32: between operations a running engine is a started one, and run() and
\* step() open no traversal on an engine that is not started.
C32_RunningOnlyWhenStarted ==
    Idle => /\ running => started
            /\ ~started => (RunOp(Cur).stack = stack /\ StepOp(Cur).stack = stack)

\* the step opens a traversal: engineTimer calls the update of the root context
TraversalOpens == Len(stack') > Len(stack) /\ stack'[Len(stack')].kind = "update"

\* C33: the worldTime passed to a traversal is a time that is not later than
\* the current clock and not earlier than the worldTime of the traversal
\* before, for real-time ticks and single-stepped frames alike.
C33_WorldTimeMonotonic ==
    [][TraversalOpens => /\ worldTime' # NaN
                         /\ worldTime' <= now'
                         /\ worldTime' >= worldTime]_vars

\* the step is a call of regenerate() on a component attached to its game object
RegenerateCalled == markDirtyCalls' = markDirtyCalls + 1

\* C34: a draw pass calls the offscreen render helper if and only if the mode
\* is REDRAW; in mode NORMAL a draw pass, and any number of them, leaves the
\* mode NORMAL and the snapshot as it is; and the mode goes from NORMAL to
\* REDRAW by regenerate() only.
C34_NoAutomaticInvalidation ==
    /\ [](( mode # NULL /\ gameObject # NULL) =>
             \A drawOk \in BOOLEAN :
                 LET e == ExecuteOp(Cur, TRUE, drawOk)
                 IN /\ e.renders = IF mode = REDRAW THEN renders + 1 ELSE renders
                    /\ mode = NORMAL =>
                           /\ e.mode = NORMAL /\ e.snapshot = snapshot
                           /\ e.billboard = billboard
                           /\ \A again \in BOOLEAN :
                                  LET f == ExecuteOp(e, TRUE, again)
                                  IN f.mode = NORMAL /\ f.snapshot = snapshot
                                     /\ f.renders = renders)
    /\ [][(mode = NORMAL /\ mode' = REDRAW) => RegenerateCalled]_vars

\* the component was drawn, regenerated once and drawn again
C34_Witness ==
    /\ mode = NORMAL /\ gameObject # NULL /\ renders = 2 /\ snapshot = 2
    /\ markDirtyCalls = 1 /\ blit = "drawn"

\* C35: a drawImage that fails during a draw pass is swallowed: execute
\* returns as after a successful one, with the same mode, the same snapshot
\* and the origin transform undone; nothing but the drawing differs.
C35_BlitFailureSwallowed ==
    (mode # NULL /\ gameObject # NULL) =>
        LET bad == ExecuteOp(Cur, TRUE, FALSE)
            good == ExecuteOp(Cur, TRUE, TRUE)
        IN /\ ExecuteResult(Cur, TRUE, FALSE) = UNDEFINED
           /\ bad.mode = good.mode /\ bad.mode = NORMAL
           /\ bad.transform = transform
           /\ bad = [good EXCEPT !.blit = "failed"]

\* a draw pass whose drawImage failed has rendered the snapshot and returned
C35_Witness ==
    /\ blit = "failed" /\ mode = NORMAL /\ transform = 0 /\ renders = 1 /\ snapshot = 1
    /\ InFrame("update")

\* C36: after addEvent(null, type, data, handler) the bookkeeping of the
\* object holds, under the key "document," + type, the handler that the call
\* attached to the document.
C36_GlobalBindingRecorded ==
    ~destroyed =>
        \A type \in EventTypes, fn \in Functions :
            LET key == EventKey(DocumentName, type)
                r == AddEventOp(Cur, NoOwner, type, UNDEFINED, fn)
            IN /\ [target |-> "document", type |-> type, fn |-> fn, by |-> key] \in r.bound
               /\ EventOf(r, key) = fn

\* C37: after removeEvent(owner, type) the bookkeeping of the object has no
\* entry under owner-name + "," + type for a named owner, and none under
\* "document," + type for a null owner, whether a handler was found or not.
C37_RemoveEventDeletesEntry ==
    ~destroyed =>
        \A ref \in OwnerNames \cup {NoOwner}, type \in EventTypes :
            LET name == IF ref = NoOwner THEN DocumentName ELSE ref
            IN RemoveEventOp(Cur, ref, type).events[EventKey(name, type)] = ABSENT

\* C38: fpsClock is a positive integer in every reachable state, and it is
\* one after setFPS(f) for every f that setFPS accepts, so that the ratio
\* frameTime / fpsClock and the division by fpsClock of the dropped frames
\* are defined.
C38_FpsClockPositive ==
    /\ fpsClock > 0
    /\ \A f \in FpsValues \cup FastFps :
           SetFPSResult(Cur, f) = UNDEFINED => SetFPSOp(Cur, f).fpsClock > 0

\* C17: a billboard component is in mode REDRAW after its construction, in
\* mode NORMAL after one draw pass (an execute that the base class lets draw,
\* on a component attached to its game object), and after regenerate() it is
\* in mode REDRAW again with hostRect null and markDirty() called once on its
\* game object.
C17_BillboardModes ==
    /\ Billboard2DOp(Cur).mode = REDRAW
    /\ (mode # NULL /\ gameObject # NULL) =>
           /\ ExecuteOp(Cur, TRUE, TRUE).mode = NORMAL
           /\ LET r == RegenerateOp(Cur)
              IN /\ r.mode = REDRAW /\ r.hostRect = NULL
                 /\ r.markDirtyCalls = markDirtyCalls + 1
           /\ RegenerateOp(ExecuteOp(Cur, TRUE, TRUE)).mode = REDRAW
           /\ ExecuteOp(RegenerateOp(ExecuteOp(Cur, TRUE, TRUE)), TRUE, TRUE).mode = NORMAL
    /\ (renders = 0 /\ markDirtyCalls = 0 /\ mode # NULL) => mode = REDRAW

C17_Witness ==
    /\ mode = REDRAW /\ gameObject # NULL /\ billboard # NULL
    /\ renders = 1 /\ markDirtyCalls = 1 /\ hostRect = NULL

\* C18: on an object with an element, after any sequence of addEvent calls,
\* removeEvent(owner, type) leaves no handler that was attached under
\* (owner, type) on the element and no bookkeeping entry for that key.
C18_ScopedBindingRemovable ==
    (~destroyed /\ element # NULL) =>
        \A ref \in OwnerNames, type \in EventTypes :
            LET r == RemoveEventOp(Cur, ref, type)
            IN /\ r.events[EventKey(ref, type)] = ABSENT
               /\ ~\E b \in r.bound : b.target = element /\ b.by = EventKey(ref, type)

\* C19: once destroy() has run, no handler that the object attached through
\* addEvent (scoped or global) is still attached to its target.
C19_DestroyLeavesNoBinding == destroyed => bound = {}

\* C10: in every state livingObjects is the number of objects counted at
\* their creation and not destroyed since.
C10_LiveCountIsLiveObjects ==
    livingObjects = Cardinality({o \in Objects : objState[o] = "live"})

====
